---------------------------- MODULE Spec2Model ----------------------------
(***************************************************************************)
(* Placeholder anonymizer (presidio_placeholder_anonymizer.py).            *)
(*                                                                         *)
(* Texts are sequences of one-character strings.  The entity mapping is a  *)
(* Python dict of dicts; a dict is modelled as the sequence of its items   *)
(* in insertion order, which is the order Python iterates it in.           *)
(***************************************************************************)
EXTENDS Integers, Sequences, FiniteSets, TLC

VARIABLES
    pc,                 \* "anonymize", "stored" (mapping file written), "done"
    input_text,         \* anonymize_text's input_text, the raw text
    analyzer_results,   \* the detections, in the order operate is called on them
    entity_mapping,     \* the entity mapping of the run, then of the mapping file
    returned,           \* operate's calls so far: entity type, text, placeholder returned
    anonymized_text,    \* anonymized_result.text
    revised_text,       \* deanonymize_text's input_text
    deanonymized_text   \* deanonymize_text's output

vars == <<pc, input_text, analyzer_results, entity_mapping, returned,
          anonymized_text, revised_text, deanonymized_text>>

\* Number of segments (plain or detected) the raw input text is made of.
MaxSegs == 3

\* Entity types the analyzer reports: a plain one, one that extends another
\* type by "_0", and one that holds an angle bracket.
EntityTypes == { <<"A">>, <<"A", "_", "0">>, <<"A", "_", "0", ">">> }

\* Pieces of raw text: two ordinary words and a word shaped like a placeholder.
Words == { <<"x">>, <<"y">>, <<"<", "A", "_", "0", ">">> }

NoType == <<>>

-----------------------------------------------------------------------------
(* Strings *)

\* str(index) for a non-negative int, as str.format renders {index}.
Digit == <<"0", "1", "2", "3", "4", "5", "6", "7", "8", "9">>

RECURSIVE ToDecimal(_)
ToDecimal(n) ==
    IF n < 10 THEN <<Digit[n + 1]>>
    ELSE ToDecimal(n \div 10) \o <<Digit[(n % 10) + 1]>>

\* s.startswith(old, i) with a 0-based offset i.
MatchAt(s, old, i) ==
    /\ i + Len(old) <= Len(s)
    /\ \A k \in 1..Len(old) : s[i + k] = old[k]

\* s[i:] after str.replace(old, new) has consumed s[:i]: leftmost matches,
\* left to right, never overlapping.  An empty old matches before every
\* character and at the end.
RECURSIVE ReplaceFrom(_, _, _, _)
ReplaceFrom(s, old, new, i) ==
    IF old = <<>>
    THEN IF i >= Len(s) THEN new
         ELSE new \o <<s[i + 1]>> \o ReplaceFrom(s, old, new, i + 1)
    ELSE IF i >= Len(s) THEN <<>>
         ELSE IF MatchAt(s, old, i)
              THEN new \o ReplaceFrom(s, old, new, i + Len(old))
              ELSE <<s[i + 1]>> \o ReplaceFrom(s, old, new, i + 1)

\* s.replace(old, new)
Replace(s, old, new) == ReplaceFrom(s, old, new, 0)

-----------------------------------------------------------------------------
(* PlaceholderAnonymizer *)

\* The format with the entity type left out of the token.
FormatNoType(entity_type, index) ==
    <<"<">> \o <<"_">> \o ToDecimal(index) \o <<">">>

\* The format with the closing angle bracket left out.
FormatNoClose(entity_type, index) ==
    <<"<">> \o entity_type \o <<"_">> \o ToDecimal(index)

\* REPLACING_FORMAT.format(entity_type=entity_type, index=index)
REPLACING_FORMAT(entity_type, index) ==
    <<"<">> \o entity_type \o <<"_">> \o ToDecimal(index) \o <<">">>

\* entity_type in entity_mapping
HasType(mapping, entity_type) ==
    \E i \in 1..Len(mapping) : mapping[i].entity_type = entity_type

TypePos(mapping, entity_type) ==
    CHOOSE i \in 1..Len(mapping) : mapping[i].entity_type = entity_type

\* entity_mapping[entity_type], the items of the inner dict
Inner(mapping, entity_type) ==
    IF HasType(mapping, entity_type)
    THEN mapping[TypePos(mapping, entity_type)].items
    ELSE <<>>

\* text in original_map
HasText(original_map, text) ==
    \E i \in 1..Len(original_map) : original_map[i].text = text

\* original_map[text]
Get(original_map, text) ==
    original_map[CHOOSE i \in 1..Len(original_map) : original_map[i].text = text].placeholder

\* The lookup of an already mapped text left out.
NeverMapped(mapping, entity_type, text) == FALSE

\* entity_type in entity_mapping and text in entity_mapping[entity_type]
IsMapped(mapping, entity_type, text) ==
    /\ HasType(mapping, entity_type)
    /\ HasText(Inner(mapping, entity_type), text)

\* entity_mapping.items() and, inside, original_map.items(), in iteration order.
RECURSIVE Entries(_)
Entries(mapping) ==
    IF mapping = <<>> THEN <<>>
    ELSE LET e == Head(mapping)
         IN  [i \in 1..Len(e.items) |->
                 [entity_type |-> e.entity_type,
                  text |-> e.items[i].text,
                  placeholder |-> e.items[i].placeholder]]
             \o Entries(Tail(mapping))

\* The index counted over the entries of all entity types.
GlobalIndex(mapping, entity_type) == Len(Entries(mapping))

\* index: 0 for a new entity type, else len(entity_mapping[entity_type])
NextIndex(mapping, entity_type) ==
    IF ~HasType(mapping, entity_type) THEN 0
    ELSE Len(Inner(mapping, entity_type))

\* original_map[text] = placeholder on a dict: an existing key keeps its
\* position and takes the new value, a new key goes last.
SetItem(original_map, text, placeholder) ==
    IF HasText(original_map, text)
    THEN [i \in 1..Len(original_map) |->
            IF original_map[i].text = text
            THEN [text |-> text, placeholder |-> placeholder]
            ELSE original_map[i]]
    ELSE Append(original_map, [text |-> text, placeholder |-> placeholder])

\* entity_mapping[entity_type] = {} when the type is new
WithType(mapping, entity_type) ==
    IF HasType(mapping, entity_type) THEN mapping
    ELSE Append(mapping, [entity_type |-> entity_type, items |-> <<>>])

\* The inner dict started afresh on every new entry.
StoreFresh(mapping, entity_type, text, placeholder) ==
    LET m == WithType(mapping, entity_type)
    IN  [i \in 1..Len(m) |->
            IF m[i].entity_type = entity_type
            THEN [entity_type |-> entity_type,
                  items |-> <<[text |-> text, placeholder |-> placeholder]>>]
            ELSE m[i]]

\* entity_mapping[entity_type][text] = placeholder
Store(mapping, entity_type, text, placeholder) ==
    LET m == WithType(mapping, entity_type)
    IN  [i \in 1..Len(m) |->
            IF m[i].entity_type = entity_type
            THEN [entity_type |-> entity_type,
                  items |-> SetItem(m[i].items, text, placeholder)]
            ELSE m[i]]

\* operate(text, params): the placeholder calls and the mapping left behind
operate(mapping, entity_type, text) ==
    IF IsMapped(mapping, entity_type, text)
    THEN [placeholder |-> Get(Inner(mapping, entity_type), text),
          entity_mapping |-> mapping]
    ELSE LET placeholder ==
                 REPLACING_FORMAT(entity_type, NextIndex(mapping, entity_type))
         IN  [placeholder |-> placeholder,
              entity_mapping |-> Store(mapping, entity_type, text, placeholder)]

-----------------------------------------------------------------------------
(* anonymize_text *)

\* The text of the entity analyzer_results[k]: input_text[start:end].
SpanText(raw, result) == SubSeq(raw, result.start + 1, result.end)

\* anonymized_result.text from offset i on: every analysed span [start, end)
\* gives way to the placeholder operate calls for it, the rest is kept.
RECURSIVE RenderFrom(_, _, _, _)
RenderFrom(raw, results, calls, i) ==
    IF i >= Len(raw) THEN <<>>
    ELSE IF \E k \in 1..Len(results) : results[k].start = i
         THEN LET k == CHOOSE k \in 1..Len(results) : results[k].start = i
              IN  calls[k].placeholder
                      \o RenderFrom(raw, results, calls, results[k].end)
         ELSE <<raw[i + 1]>> \o RenderFrom(raw, results, calls, i + 1)

Render(raw, results, calls) == RenderFrom(raw, results, calls, 0)

-----------------------------------------------------------------------------
(* deanonymize_text *)

\* reverse_map[placeholder] = original_value
SetKey(reverse_map, placeholder, original_value) ==
    IF \E i \in 1..Len(reverse_map) : reverse_map[i].placeholder = placeholder
    THEN [i \in 1..Len(reverse_map) |->
            IF reverse_map[i].placeholder = placeholder
            THEN [placeholder |-> placeholder, original_value |-> original_value]
            ELSE reverse_map[i]]
    ELSE Append(reverse_map,
                [placeholder |-> placeholder, original_value |-> original_value])

RECURSIVE BuildReverse(_, _)
BuildReverse(entries, reverse_map) ==
    IF entries = <<>> THEN reverse_map
    ELSE BuildReverse(Tail(entries),
                      SetKey(reverse_map, Head(entries).placeholder, Head(entries).text))

\* The reverse map, as the sequence of its items in iteration order.
ReverseMap(mapping) == BuildReverse(Entries(mapping), <<>>)

\* The replacement loop over pairs, a sequence of (placeholder, original_value).
RECURSIVE ReplaceAll(_, _)
ReplaceAll(text, pairs) ==
    IF pairs = <<>> THEN text
    ELSE ReplaceAll(Replace(text, Head(pairs).placeholder, Head(pairs).original_value),
                    Tail(pairs))

\* deanonymized_text
Deanonymize(text, mapping) ==
    ReplaceAll(text, ReverseMap(mapping))

-----------------------------------------------------------------------------
(* Inputs *)

\* A raw text is a sequence of segments, each a word the analyzer either
\* leaves alone (NoType) or reports as an entity of some type.
Segment == [word : Words, entity_type : EntityTypes \cup {NoType}]

SegmentSeqs == UNION { [1..n -> Segment] : n \in 0..MaxSegs }

RECURSIVE Concat(_)
Concat(segs) ==
    IF segs = <<>> THEN <<>> ELSE Head(segs).word \o Concat(Tail(segs))

\* analyzer.analyze(text=input_text): the spans of the detected segments,
\* disjoint, in text order; offset is the length of the text before segs.
RECURSIVE Analyze(_, _)
Analyze(segs, offset) ==
    IF segs = <<>> THEN <<>>
    ELSE LET end == offset + Len(Head(segs).word)
         IN  (IF Head(segs).entity_type = NoType THEN <<>>
              ELSE <<[entity_type |-> Head(segs).entity_type,
                      start |-> offset, end |-> end]>>)
             \o Analyze(Tail(segs), end)

\* s without its first occurrence of old (s itself when there is none).
RECURSIVE CutFirstFrom(_, _, _)
CutFirstFrom(s, old, i) ==
    IF i >= Len(s) THEN <<>>
    ELSE IF MatchAt(s, old, i) THEN SubSeq(s, i + Len(old) + 1, Len(s))
         ELSE <<s[i + 1]>> \o CutFirstFrom(s, old, i + 1)

\* What a third party may hand back for an anonymized text: the text as it
\* is, or with a placeholder of the mapping removed, repeated or moved to the
\* end, or with the next, never allocated, placeholder of a type put in front.
RevisedTexts(text, mapping) ==
    {text}
    \cup { CutFirstFrom(text, Entries(mapping)[i].placeholder, 0) :
               i \in 1..Len(Entries(mapping)) }
    \cup { text \o Entries(mapping)[i].placeholder : i \in 1..Len(Entries(mapping)) }
    \cup { CutFirstFrom(text, Entries(mapping)[i].placeholder, 0)
               \o Entries(mapping)[i].placeholder : i \in 1..Len(Entries(mapping)) }
    \cup { REPLACING_FORMAT(t, NextIndex(mapping, t)) \o text : t \in EntityTypes }

-----------------------------------------------------------------------------
(* The run: anonymize, then deanonymize what came back *)

Init ==
    /\ \E segs \in SegmentSeqs :
          /\ input_text = Concat(segs)
          /\ analyzer_results = Analyze(segs, 0)
    /\ pc = "anonymize"
    /\ entity_mapping = <<>>
    /\ returned = <<>>
    /\ anonymized_text = <<>>
    /\ revised_text = <<>>
    /\ deanonymized_text = <<>>

\* The anonymizer engine hands the next entity to PlaceholderAnonymizer.operate.
Operate ==
    /\ pc = "anonymize"
    /\ Len(returned) < Len(analyzer_results)
    /\ LET result == analyzer_results[Len(returned) + 1]
           text == SpanText(input_text, result)
           out == operate(entity_mapping, result.entity_type, text)
       IN  /\ entity_mapping' = out.entity_mapping
           /\ returned' = Append(returned,
                                 [entity_type |-> result.entity_type,
                                  text |-> text,
                                  placeholder |-> out.placeholder])
    /\ UNCHANGED <<pc, input_text, analyzer_results, anonymized_text,
                   revised_text, deanonymized_text>>

\* anonymize_text ends: the mapping is written and the anonymized text printed.
WriteMapping ==
    /\ pc = "anonymize"
    /\ Len(returned) = Len(analyzer_results)
    /\ anonymized_text' = Render(input_text, analyzer_results, returned)
    /\ pc' = "stored"
    /\ UNCHANGED <<input_text, analyzer_results, entity_mapping, returned,
                   revised_text, deanonymized_text>>

\* deanonymize_text on the text that came back and the mapping file.
DeanonymizeText ==
    /\ pc = "stored"
    /\ \E text \in RevisedTexts(anonymized_text, entity_mapping) :
          /\ revised_text' = text
          /\ deanonymized_text' = Deanonymize(text, entity_mapping)
    /\ pc' = "done"
    /\ UNCHANGED <<input_text, analyzer_results, entity_mapping, returned,
                   anonymized_text>>

Next == Operate \/ WriteMapping \/ DeanonymizeText

Spec == Init /\ [][Next]_vars

-----------------------------------------------------------------------------
(* Vocabulary of the properties *)

\* The canonical textual form of a placeholder, <entity_type_index>.
Token(entity_type, index) ==
    <<"<">> \o entity_type \o <<"_">> \o ToDecimal(index) \o <<">">>

\* old in s
Occurs(old, s) == \E i \in 0..Len(s) : MatchAt(s, old, i)

Digits == { Digit[d] : d \in 1..Len(Digit) }

AngleFree(s) == \A k \in 1..Len(s) : s[k] \notin {"<", ">"}

\* u reads <TYPE_index>: angle brackets around a type without angle
\* brackets, an underscore and a decimal index.
PlaceholderSyntax(u) ==
    /\ Len(u) >= 5
    /\ u[1] = "<"
    /\ u[Len(u)] = ">"
    /\ AngleFree(SubSeq(u, 2, Len(u) - 1))
    /\ \E k \in 3..(Len(u) - 2) :
          /\ u[k] = "_"
          /\ \A m \in (k + 1)..(Len(u) - 1) : u[m] \in Digits

\* Every entity type of the mapping is free of angle brackets.
AngleFreeTypes(mapping) ==
    \A i \in 1..Len(mapping) : AngleFree(mapping[i].entity_type)

\* placeholder is a key of the reverse map
IsKey(mapping, placeholder) ==
    \E i \in 1..Len(Entries(mapping)) : Entries(mapping)[i].placeholder = placeholder

\* The texts operate was called with for entity_type, each once, in the
\* order of their first call.
RECURSIVE DistinctTexts(_, _)
DistinctTexts(calls, entity_type) ==
    IF calls = <<>> THEN <<>>
    ELSE LET before == DistinctTexts(SubSeq(calls, 1, Len(calls) - 1), entity_type)
             last == calls[Len(calls)]
         IN  IF /\ last.entity_type = entity_type
                /\ \A n \in 1..Len(before) : before[n] # last.text
             THEN Append(before, last.text)
             ELSE before

\* The call that has just been made, in a step that is a call of operate.
IsCall == returned' # returned
Called == returned'[Len(returned')]

\* The first call of operate for the pair (entity_type, text).
FirstCall(calls, entity_type, text) ==
    calls[CHOOSE k \in 1..Len(calls) :
            /\ calls[k].entity_type = entity_type
            /\ calls[k].text = text
            /\ \A j \in 1..(k - 1) :
                  ~(calls[j].entity_type = entity_type /\ calls[j].text = text)]

HasEntry(mapping, entity_type, text) ==
    \E i \in 1..Len(Entries(mapping)) :
        /\ Entries(mapping)[i].entity_type = entity_type
        /\ Entries(mapping)[i].text = text

-----------------------------------------------------------------------------
(* Properties *)

\* C2 (sequential indexing): for every entity type, the n-th distinct text
\* operate was called with for that type holds the placeholder
\* <type_(n-1)> in the mapping, and every call for it returned that
\* placeholder, whatever calls for other types or repeated calls came between.
SequentialIndexing ==
    \A t \in EntityTypes :
        LET distinct == DistinctTexts(returned, t)
        IN  \A n \in 1..Len(distinct) :
                /\ HasText(Inner(entity_mapping, t), distinct[n])
                /\ Get(Inner(entity_mapping, t), distinct[n]) = Token(t, n - 1)
                /\ \A k \in 1..Len(returned) :
                      (returned[k].entity_type = t /\ returned[k].text = distinct[n])
                          => returned[k].placeholder = Token(t, n - 1)

\* C2 witness: a type got its second distinct text after a call for another
\* type, and that text holds index 1.
SequentialIndexingWitness ==
    /\ Len(returned) = 3
    /\ returned[1].entity_type = returned[3].entity_type
    /\ returned[2].entity_type # returned[1].entity_type
    /\ returned[3].text # returned[1].text
    /\ returned[3].placeholder = Token(returned[3].entity_type, 1)

\* C3 (idempotent allocation): a call of operate for a pair (entity type,
\* text) that already has an entry returns the placeholder the first call for
\* that pair returned, and leaves the whole mapping as it was.
IdempotentAllocation ==
    [][ (IsCall /\ HasEntry(entity_mapping, Called.entity_type, Called.text))
            => /\ entity_mapping' = entity_mapping
               /\ Called.placeholder =
                      FirstCall(returned, Called.entity_type, Called.text).placeholder
      ]_vars

\* C3 witness: the same text of one type was detected twice, and both calls
\* returned <type_0>, with one entry in the mapping.
IdempotentAllocationWitness ==
    /\ Len(returned) >= 2
    /\ returned[2].entity_type = returned[1].entity_type
    /\ returned[2].text = returned[1].text
    /\ returned[2].placeholder = Token(returned[1].entity_type, 0)
    /\ returned[1].placeholder = returned[2].placeholder
    /\ Len(Entries(entity_mapping)) = 1

\* C4 (invariant I2): no two entries of the mapping hold the same
\* placeholder, so the reverse map has one key per entry, and a placeholder
\* stored under a type is that type's token for some index.
PlaceholdersUnique ==
    LET entries == Entries(entity_mapping)
    IN  /\ \A i, j \in 1..Len(entries) :
              i # j => entries[i].placeholder # entries[j].placeholder
        /\ Len(ReverseMap(entity_mapping)) = Len(entries)
        /\ \A i \in 1..Len(entries) :
              \E n \in 0..Len(entries) :
                  entries[i].placeholder = Token(entries[i].entity_type, n)

\* C4 witness: the same text is stored under two entity types, and a third
\* entry exists.
PlaceholdersUniqueWitness ==
    LET entries == Entries(entity_mapping)
    IN  /\ Len(entries) = 3
        /\ \E i, j \in 1..3 :
              /\ entries[i].entity_type # entries[j].entity_type
              /\ entries[i].text = entries[j].text

\* C9 (invariant I3, index stability): a step keeps every entry of the
\* mapping, with its placeholder; an entry a call adds holds the token whose
\* index is the size of its type's inner mapping before the call, and no
\* other entry of that type holds that placeholder.
IndexStability ==
    [][ LET before == Entries(entity_mapping)
            after == Entries(entity_mapping')
        IN  /\ \A i \in 1..Len(before) : \E j \in 1..Len(after) : after[j] = before[i]
            /\ \A j \in 1..Len(after) :
                  ~HasEntry(entity_mapping, after[j].entity_type, after[j].text)
                      => /\ after[j].placeholder =
                                Token(after[j].entity_type,
                                      Len(Inner(entity_mapping, after[j].entity_type)))
                         /\ \A k \in 1..Len(after) :
                               (k # j /\ after[k].entity_type = after[j].entity_type)
                                   => after[k].placeholder # after[j].placeholder
      ]_vars

\* C9 witness: a type holds three entries with the indices 0, 1, 2 in the
\* order of their allocation.
IndexStabilityWitness ==
    \E t \in EntityTypes :
        /\ Len(Inner(entity_mapping, t)) = 3
        /\ \A n \in 1..3 : Inner(entity_mapping, t)[n].placeholder = Token(t, n - 1)

UnknownTokens(text, mapping) ==
    { ij \in (0..Len(text)) \X (0..Len(text)) :
        /\ ij[1] < ij[2]
        /\ PlaceholderSyntax(SubSeq(text, ij[1] + 1, ij[2]))
        /\ ~IsKey(mapping, SubSeq(text, ij[1] + 1, ij[2])) }

\* The output keeps the token at (i, j): it is the output for what precedes
\* the token, the token, and the output for what follows it.
KeepsToken(text, mapping, ij) ==
    Deanonymize(text, mapping) =
        Deanonymize(SubSeq(text, 1, ij[1]), mapping)
            \o SubSeq(text, ij[1] + 1, ij[2])
            \o Deanonymize(SubSeq(text, ij[2] + 1, Len(text)), mapping)

\* C5 as stated (unknown-placeholder stability, for any mapping): every
\* unmapped token of the text is kept by the reverse pass.
UnknownPlaceholderStable ==
    pc = "done"
        => /\ deanonymized_text = Deanonymize(revised_text, entity_mapping)
           /\ \A ij \in UnknownTokens(revised_text, entity_mapping) :
                 KeepsToken(revised_text, entity_mapping, ij)

\* C5 amended: when no entity type of the mapping holds an angle bracket,
\* every unmapped token of the text is kept by the reverse pass.
UnknownPlaceholderStableAngleFree ==
    (pc = "done" /\ AngleFreeTypes(entity_mapping))
        => /\ deanonymized_text = Deanonymize(revised_text, entity_mapping)
           /\ \A ij \in UnknownTokens(revised_text, entity_mapping) :
                 KeepsToken(revised_text, entity_mapping, ij)

\* C5 witness: the reverse pass has run on a text with an unmapped token and
\* with a mapped placeholder, which it replaced, under angle-free types.
UnknownPlaceholderStableWitness ==
    /\ pc = "done"
    /\ AngleFreeTypes(entity_mapping)
    /\ UnknownTokens(revised_text, entity_mapping) # {}
    /\ \E i \in 1..Len(Entries(entity_mapping)) :
          Occurs(Entries(entity_mapping)[i].placeholder, revised_text)
    /\ deanonymized_text # revised_text

\* C1 as stated (round-trip law): the reverse pass on the unedited anonymized
\* text, with the mapping the forward pass produced, gives back the raw text.
RoundTrip ==
    (pc = "done" /\ revised_text = anonymized_text)
        => deanonymized_text = input_text

\* mapping without the entry of (entity_type, text)
RECURSIVE DropItem(_, _)
DropItem(original_map, text) ==
    IF original_map = <<>> THEN <<>>
    ELSE IF Head(original_map).text = text THEN Tail(original_map)
         ELSE <<Head(original_map)>> \o DropItem(Tail(original_map), text)

WithoutEntry(mapping, entity_type, text) ==
    [i \in 1..Len(mapping) |->
        IF mapping[i].entity_type = entity_type
        THEN [entity_type |-> entity_type, items |-> DropItem(mapping[i].items, text)]
        ELSE mapping[i]]

\* C6 as stated (missing-occurrence tolerance): an entry whose placeholder
\* does not occur in the text changes nothing: the reverse pass gives what it
\* gives with that entry removed from the mapping.
MissingOccurrenceTolerated ==
    pc = "done"
        => \A i \in 1..Len(Entries(entity_mapping)) :
              LET e == Entries(entity_mapping)[i]
              IN  ~Occurs(e.placeholder, revised_text)
                      => deanonymized_text =
                             Deanonymize(revised_text,
                                         WithoutEntry(entity_mapping, e.entity_type, e.text))

\* text[i:] with every occurrence of every key of pairs replaced by its
\* value at once: the input is scanned once, left to right, the longest key
\* that matches at a place is taken, and what is put in is not scanned again.
RECURSIVE SubstituteFrom(_, _, _)
SubstituteFrom(text, pairs, i) ==
    IF i >= Len(text) THEN <<>>
    ELSE IF \E k \in 1..Len(pairs) : MatchAt(text, pairs[k].placeholder, i)
         THEN LET k == CHOOSE k \in 1..Len(pairs) :
                           /\ MatchAt(text, pairs[k].placeholder, i)
                           /\ \A m \in 1..Len(pairs) :
                                 MatchAt(text, pairs[m].placeholder, i)
                                     => Len(pairs[m].placeholder) <= Len(pairs[k].placeholder)
              IN  pairs[k].original_value
                      \o SubstituteFrom(text, pairs, i + Len(pairs[k].placeholder))
         ELSE <<text[i + 1]>> \o SubstituteFrom(text, pairs, i + 1)

\* C7 as stated (global reverse substitution): the output is the text with
\* every occurrence of every key of the reverse map replaced, simultaneously,
\* by its original value.  Stated for the mappings whose entity types hold no
\* angle bracket: there no key lies inside another, and the simultaneous
\* substitution does not depend on which of two matching keys is taken.
GlobalSubstitution ==
    (pc = "done" /\ AngleFreeTypes(entity_mapping))
        => deanonymized_text =
               SubstituteFrom(revised_text, ReverseMap(entity_mapping), 0)

\* The pairs in the order perm.
Permuted(pairs, perm) == [k \in 1..Len(pairs) |-> pairs[perm[k]]]

Orders(n) ==
    { f \in [1..n -> 1..n] : \A a, b \in 1..n : a # b => f[a] # f[b] }

\* C8 as stated (order independence): when no entity type of the mapping
\* holds an angle bracket, the replacements give the same output in every
\* order of the pairs of the reverse map.
OrderIndependent ==
    (pc = "done" /\ AngleFreeTypes(entity_mapping))
        => LET pairs == ReverseMap(entity_mapping)
           IN  \A perm \in Orders(Len(pairs)) :
                   ReplaceAll(revised_text, Permuted(pairs, perm)) = deanonymized_text

=============================================================================
